---- MODULE Spec2Model ----
(***************************************************************************)
(* Ten Master (Wehrdo/match-maker): the match path resolver, the grid      *)
(* transforms and the session state machine of App.tsx.                    *)
(*                                                                         *)
(* Indices are 0-based as in the source; a grid is a TLA+ sequence, so     *)
(* cell i of the source is g[i + 1] (operator At).  The empty marker       *)
(* (null) is Null; a read outside the array (undefined) is Undefined.      *)
(*                                                                         *)
(* The specifications of the module:                                       *)
(*   Spec           the session: mount, clicks, refill, undo, reset and    *)
(*                  the delayed collapse callbacks (setTimeout, 300 ms);   *)
(*   OverlapSpec    the session with two callbacks in flight, no reset;    *)
(*   FairSpec       the session whose collapse callbacks do fire;          *)
(*   ResumeSpec     the start of the page on every kind of stored value;   *)
(*   StartSpec      the same, with the save effect of the first commit;    *)
(*   PureSpec       getMatchPath on every bounded grid and index pair;     *)
(*   TransformSpec  refillGrid and collapseEmptyRows on every bounded      *)
(*                  grid.                                                  *)
(*                                                                         *)
(* Display-only state (message, activeMatchLine, showWinAnimation,         *)
(* winAnimationComplete) and its timers are left out: no handler reads it. *)
(* The Refill and Undo buttons are disabled when their handler would       *)
(* reject; the handlers are modelled with both branches all the same.      *)
(***************************************************************************)
EXTENDS Integers, Sequences, FiniteSets, TLC

(***************************************************************************)
(* Bounds.  The program's GRID_COLUMNS = 10, INITIAL_FILL_COUNT = 35 and   *)
(* MAX_REFILLS = 5 are scaled down for the session; INITIAL_FILL_COUNT     *)
(* stays odd (2 * FillHalf + 1) as 35 is.                                  *)
(***************************************************************************)
GRID_COLUMNS == 2
FillHalf == 1
MAX_REFILLS == 1
MaxRows == 3
MaxPending == 1
MaxResets == 1
MaxLen == 7
MaxCols == 3

INITIAL_FILL_COUNT == 2 * FillHalf + 1

\* Math.floor(Math.random() * 9) + 1 draws from 1..9; the model draws from
\* three digits: 3 + 7 = 10, 5 + 5 = 10, and 3, 5 (5, 7) do not match.
Digits == {3, 5, 7}
\* The session draws from two of them, which keeps equal, sum-to-ten and
\* non-matching pairs.
SessionDigits == {3, 5}
Null == 0
Undefined == -1
CellValue == Digits \cup {Null}

VARIABLES
  grid,              \* useState<CellValue[]>([])
  selectedIdx,       \* useState<number | null>(null); NoSel is null
  refillsRemaining,  \* useState(MAX_REFILLS)
  score,             \* useState(0)
  isInitialized,     \* useState(false)
  undoUsed,          \* useState(false)
  undoSnapshot,      \* useState<UndoSnapshot | null>(null); <<>> is null
  pending,           \* the collapse callbacks scheduled by setTimeout(.., 300),
                     \* in scheduling order; each holds its captured newGrid
  store,             \* localStorage[STORAGE_KEY]; <<>> is absent
  expect,            \* history: what the latest undo / reset installed, or the
                     \* branch the latest handler took, until the next player
                     \* action
  undoCount,         \* history: successful undos since the last reset
  resets,            \* history: resets so far (bounded by MaxResets)
  refillCount,       \* history: accepted refills since the last reset
  pendingCap,        \* the bound on pending callbacks of the specification
  fnGrid, fnCols, fnIdx1, fnIdx2, fnPath,  \* PureSpec: inputs and result
  fnPathRev,         \* PureSpec: the result with the two indices swapped
  fnOp,              \* TransformSpec: the function applied ("idle" before)
  fnOut,             \* TransformSpec: its result
  fnAgain            \* TransformSpec: collapseEmptyRows of fnOut

sessionVars == <<grid, selectedIdx, refillsRemaining, score,
                 isInitialized, undoUsed, undoSnapshot, pending, store,
                 expect, undoCount, resets, refillCount, pendingCap>>
fnVars == <<fnGrid, fnCols, fnIdx1, fnIdx2, fnPath, fnPathRev, fnOp, fnOut, fnAgain>>
vars == <<grid, selectedIdx, refillsRemaining, score,
          isInitialized, undoUsed, undoSnapshot, pending, store,
          expect, undoCount, resets, refillCount, pendingCap,
          fnGrid, fnCols, fnIdx1, fnIdx2, fnPath, fnPathRev, fnOp, fnOut, fnAgain>>

NoSel == -1

(***************************************************************************)
(* Helpers                                                                 *)
(***************************************************************************)
\* grid[i] of the source: undefined outside the array.
At(g, i) == IF i >= 0 /\ i < Len(g) THEN g[i + 1] ELSE Undefined
Abs(n) == IF n < 0 THEN -n ELSE n
Min(a, b) == IF a < b THEN a ELSE b
Max(a, b) == IF a < b THEN b ELSE a
Indices(g) == 0..(Len(g) - 1)
\* grid.filter(val => val !== null)
RECURSIVE NonNull(_)
NonNull(g) ==
  IF g = <<>> THEN <<>>
  ELSE IF Head(g) # Null THEN <<Head(g)>> \o NonNull(Tail(g))
  ELSE NonNull(Tail(g))
Nulls(n) == [k \in 1..n |-> Null]
\* newGrid[i] = null
SetNull(g, i) == [k \in 1..Len(g) |-> IF k = i + 1 THEN Null ELSE g[k]]

(***************************************************************************)
(* Geometry utilities                                                      *)
(***************************************************************************)
getPos(idx, cols) == [x |-> idx % cols, y |-> idx \div cols]
getIdx(x, y, cols) == y * cols + x

(***************************************************************************)
(* Match path resolver                                                     *)
(***************************************************************************)
\* (v1 + v2 === 10) || (v1 === v2): undefined + n is NaN, never 10;
\* undefined === undefined is true.
C2_valuesMatchAny(v1, v2) == TRUE

valuesMatch(v1, v2) ==
  \/ (v1 # Undefined /\ v2 # Undefined /\ v1 + v2 = 10)
  \/ v1 = v2

C30_sequentialNeverClear(idx1, idx2, g) == FALSE

\* for (i = start + 1; i < end; i++) if (grid[i] !== null) sequentialClear = false
sequentialClear(idx1, idx2, g) ==
  \A i \in (Min(idx1, idx2) + 1)..(Max(idx1, idx2) - 1) : At(g, i) = Null

C17_isWrapFromFirst(idx1, idx2, cols) ==
  (idx1 \div cols) # (idx2 \div cols) /\ (idx1 % cols) > (idx2 % cols)

C18_isWrapAnyRowChange(idx1, idx2, cols) == (idx1 \div cols) # (idx2 \div cols)

\* isWrap = startRow !== endRow && startCol > endCol
isWrap(idx1, idx2, cols) ==
  LET start == Min(idx1, idx2)
      end == Max(idx1, idx2)
  IN  (start \div cols) # (end \div cols) /\ (start % cols) > (end % cols)

\* The horizontal scan (taken when pos1.y === pos2.y): no filled cell
\* strictly between the two columns of that row.
horizontalClear(idx1, idx2, g, cols) ==
  LET pos1 == getPos(idx1, cols)
      pos2 == getPos(idx2, cols)
  IN  \A x \in (Min(pos1.x, pos2.x) + 1)..(Max(pos1.x, pos2.x) - 1) :
        At(g, getIdx(x, pos1.y, cols)) = Null

\* The vertical scan (taken when pos1.x === pos2.x).
verticalClear(idx1, idx2, g, cols) ==
  LET pos1 == getPos(idx1, cols)
      pos2 == getPos(idx2, cols)
  IN  \A y \in (Min(pos1.y, pos2.y) + 1)..(Max(pos1.y, pos2.y) - 1) :
        At(g, getIdx(pos1.x, y, cols)) = Null

C1_diagonalUnscanned(idx1, idx2, g, cols) == TRUE

\* The diagonal scan (taken when absDx === absDy).
diagonalClear(idx1, idx2, g, cols) ==
  LET pos1 == getPos(idx1, cols)
      pos2 == getPos(idx2, cols)
      dx == pos2.x - pos1.x
      dy == pos2.y - pos1.y
      absDx == Abs(dx)
      absDy == Abs(dy)
      stepX == dx \div (IF absDx = 0 THEN 1 ELSE absDx)
      stepY == dy \div (IF absDy = 0 THEN 1 ELSE absDy)
  IN  \A i \in 1..(absDx - 1) :
        At(g, getIdx(pos1.x + i * stepX, pos1.y + i * stepY, cols)) = Null

getMatchPath(idx1, idx2, g, cols) ==
  LET v1 == At(g, idx1)
      v2 == At(g, idx2)
      pos1 == getPos(idx1, cols)
      pos2 == getPos(idx2, cols)
      absDx == Abs(pos2.x - pos1.x)
      absDy == Abs(pos2.y - pos1.y)
  IN  IF v1 = Null \/ v2 = Null \/ idx1 = idx2 THEN "null"
      ELSE IF ~valuesMatch(v1, v2) THEN "null"
      ELSE IF sequentialClear(idx1, idx2, g)
        THEN (IF isWrap(idx1, idx2, cols) THEN "sequential-wrap" ELSE "sequential")
      ELSE IF pos1.y = pos2.y
        THEN (IF horizontalClear(idx1, idx2, g, cols) THEN "horizontal" ELSE "null")
      ELSE IF pos1.x = pos2.x
        THEN (IF verticalClear(idx1, idx2, g, cols) THEN "vertical" ELSE "null")
      ELSE IF absDx = absDy
        THEN (IF diagonalClear(idx1, idx2, g, cols) THEN "diagonal" ELSE "null")
      ELSE "null"

areMatchable(idx1, idx2, g, cols) == getMatchPath(idx1, idx2, g, cols) # "null"

(***************************************************************************)
(* Grid transforms                                                         *)
(***************************************************************************)
C13_padOneCell(g, cols) == g \o Nulls(1)

C24_padNone(g, cols) == g

\* The padding both createInitialGrid and refillGrid append:
\* remainingInRow = cols - (length % cols), pushed when 0 < remainingInRow < cols.
padToRow(g, cols) ==
  LET remainingInRow == cols - (Len(g) % cols)
  IN  IF remainingInRow < cols /\ remainingInRow # 0
      THEN g \o Nulls(remainingInRow) ELSE g

\* Every grid createInitialGrid(cols, fillCount) can return when the random
\* digits are drawn from ds.
createInitialGrid(cols, fillCount, ds) ==
  {padToRow(f, cols) : f \in [1..fillCount -> ds]}

C15_collapseDropNulls(g, cols) == NonNull(g)

C29_collapseKeepsAll(g, cols) == g

C25_collapseKeepsFirstRow(g, cols) == SubSeq(g, 1, Min(cols, Len(g)))

C16_collapseDropFirstRow(g, cols) == SubSeq(g, Min(cols, Len(g)) + 1, Len(g))

collapseEmptyRows(g, cols) ==
  LET rows == (Len(g) + cols - 1) \div cols          \* Math.ceil(length / cols)
      row(y) == SubSeq(g, y * cols + 1, Min((y + 1) * cols, Len(g)))
      keep(y) == \E k \in 1..Len(row(y)) : row(y)[k] # Null
      RECURSIVE from(_)
      from(y) == IF y >= rows THEN <<>>
                 ELSE (IF keep(y) THEN row(y) ELSE <<>>) \o from(y + 1)
  IN  from(0)

C14_firstIndexOf(g) ==
  LET filled == {i \in Indices(g) : At(g, i) # Null}
  IN  IF filled = {} THEN -1 ELSE CHOOSE i \in filled : \A j \in filled : i <= j

\* The highest index holding a non-empty cell, -1 when there is none.
lastIndexOf(g) ==
  LET filled == {i \in Indices(g) : At(g, i) # Null}
  IN  IF filled = {} THEN -1 ELSE CHOOSE i \in filled : \A j \in filled : j <= i

\* Every grid refillGrid(grid, cols) can return: one grid, except when the
\* grid holds no number and a random grid is created.
refillGrid(g, cols, ds) ==
  LET existingNumbers == NonNull(g)
      lastIndex == lastIndexOf(g)
  IN  IF lastIndex = -1 THEN createInitialGrid(cols, INITIAL_FILL_COUNT, ds)
      ELSE {padToRow(SubSeq(g, 1, lastIndex + 1) \o existingNumbers, cols)}

(***************************************************************************)
(* Persistence                                                             *)
(***************************************************************************)
\* The store holds text; the model keeps the value JSON.parse makes of it:
\* a record for an object, [unparseable |-> TRUE] for text JSON.parse rejects.
\* JSON.stringify writes numbers and null as they are and an undefined array
\* entry as null.
jsonCells(g) == [k \in 1..Len(g) |-> IF g[k] = Undefined THEN Null ELSE g[k]]
jsonSnapshot(snap) ==
  IF snap = <<>> THEN <<>>
  ELSE <<[grid |-> jsonCells(snap[1].grid), score |-> snap[1].score]>>

\* JSON.stringify({ grid, refillsRemaining, score, undoUsed, undoSnapshot })
SavedGameState(g, r, s, u, snap) ==
  [grid |-> jsonCells(g), refillsRemaining |-> r, score |-> s, undoUsed |-> u,
   undoSnapshot |-> jsonSnapshot(snap)]

C21_saveEffectKeepsOnWin(g, r, s, u, snap) == <<SavedGameState(g, r, s, u, snap)>>

\* The save effect once isInitialized: saveGameState when grid.length > 0,
\* clearGameState otherwise.
saveEffect(g, r, s, u, snap) ==
  IF Len(g) > 0 THEN <<SavedGameState(g, r, s, u, snap)>> ELSE <<>>

Unparseable == [unparseable |-> TRUE]

C22_loadNothing(st) == <<>>

\* loadGameState: the parsed value, or null (<<>>) when nothing is stored or
\* JSON.parse throws (caught).
loadGameState(st) ==
  IF st # <<>> /\ "unparseable" \notin DOMAIN st[1] THEN st ELSE <<>>

\* The session's fresh grids.
FreshGrids == createInitialGrid(GRID_COLUMNS, INITIAL_FILL_COUNT, SessionDigits)

\* What the store can hold when the page is opened: nothing, or the record
\* an earlier run saved right after it created its grid.
InitialStores ==
  {<<>>} \cup {saveEffect(g, MAX_REFILLS, 0, FALSE, <<>>) : g \in FreshGrids}

(***************************************************************************)
(* Session state machine                                                   *)
(***************************************************************************)
C9_isWinOnCommit ==
  /\ isInitialized
  /\ \/ Len(grid) = 0
     \/ pending # <<>> /\ NonNull(pending[Len(pending)]) = <<>>

\* isWin = isInitialized && grid.length === 0
isWin == isInitialized /\ Len(grid) = 0

NoExpect == [op |-> "none", grid |-> <<>>, score |-> 0]
\* History: the branch the latest handler took, where it installed no state.
Did(op) == [op |-> op, grid |-> <<>>, score |-> 0]

fnIdle ==
  /\ fnGrid = <<>> /\ fnCols = 1 /\ fnIdx1 = -1 /\ fnIdx2 = -1 /\ fnPath = "idle"
  /\ fnPathRev = "idle" /\ fnOp = "idle" /\ fnOut = <<>> /\ fnAgain = <<>>

sessionIdle ==
  /\ grid = <<>>
  /\ selectedIdx = NoSel
  /\ refillsRemaining = MAX_REFILLS
  /\ score = 0
  /\ isInitialized = FALSE
  /\ undoUsed = FALSE
  /\ undoSnapshot = <<>>
  /\ pending = <<>>
  /\ expect = NoExpect
  /\ undoCount = 0
  /\ resets = 0
  /\ refillCount = 0

\* The state of the first render, before the mount effect has run.
Init ==
  /\ sessionIdle
  /\ pendingCap = MaxPending
  /\ store \in InitialStores
  /\ fnIdle

\* The load effect on mount, and the save effect that follows it.
\* saved.grid.length on a parsed value without a grid field reads .length of
\* undefined: a TypeError thrown out of the effect, before any setter ran.
Mount ==
  /\ ~isInitialized
  /\ expect.op # "load-threw"
  /\ LET saved == loadGameState(store)
     IN  IF saved # <<>> /\ "grid" \notin DOMAIN saved[1]
         THEN /\ expect' = Did("load-threw")
              /\ UNCHANGED <<grid, refillsRemaining, score, undoUsed, undoSnapshot,
                             isInitialized, store>>
         ELSE /\ IF saved # <<>> /\ Len(saved[1].grid) > 0
                 THEN /\ grid' = saved[1].grid
                      /\ refillsRemaining' = saved[1].refillsRemaining
                      /\ score' = saved[1].score
                      \* saved.undoUsed ?? false, saved.undoSnapshot ?? null
                      /\ undoUsed' = IF "undoUsed" \in DOMAIN saved[1]
                                     THEN saved[1].undoUsed ELSE FALSE
                      /\ undoSnapshot' = IF "undoSnapshot" \in DOMAIN saved[1]
                                         THEN saved[1].undoSnapshot ELSE <<>>
                 ELSE /\ grid' \in FreshGrids
                      /\ UNCHANGED <<refillsRemaining, score, undoUsed, undoSnapshot>>
              /\ isInitialized' = TRUE
              /\ store' = saveEffect(grid', refillsRemaining', score', undoUsed',
                                     undoSnapshot')
              /\ UNCHANGED expect
  /\ UNCHANGED <<selectedIdx, pending, undoCount, resets, refillCount, pendingCap>>
  /\ UNCHANGED fnVars

\* handleCellClick, selectedIdx === null: select the cell.
SelectCell(idx) ==
  /\ At(grid, idx) # Null
  /\ selectedIdx = NoSel
  /\ selectedIdx' = idx
  /\ expect' = Did("select")
  /\ UNCHANGED <<grid, refillsRemaining, score, isInitialized, undoUsed,
                 undoSnapshot, pending, store, undoCount, resets, refillCount, pendingCap>>

\* handleCellClick, selectedIdx === idx: clear the selection.
UnselectCell(idx) ==
  /\ At(grid, idx) # Null
  /\ selectedIdx = idx
  /\ selectedIdx' = NoSel
  /\ expect' = Did("unselect")
  /\ UNCHANGED <<grid, refillsRemaining, score, isInitialized, undoUsed,
                 undoSnapshot, pending, store, undoCount, resets, refillCount, pendingCap>>

C3_matchedGridOneCell(g, a, b) == SetNull(g, a)

\* The newGrid of a committed match: a copy of the grid with both cells null.
matchedGrid(g, a, b) == SetNull(SetNull(g, a), b)

C6_snapshotFirstOnly(used, snap, g, s) ==
  IF ~used /\ snap = <<>> THEN <<[grid |-> g, score |-> s]>> ELSE snap

\* The snapshot a committed match leaves: if (!undoUsed) setUndoSnapshot(..).
snapshotOnMatch(used, snap, g, s) ==
  IF ~used THEN <<[grid |-> g, score |-> s]>> ELSE snap

C20_scoreAfterMatchFive(s) == s + 5

\* setScore(prev => prev + 10)
scoreAfterMatch(s) == s + 10

\* handleCellClick, another cell selected and areMatchable: commit the match
\* and schedule the collapse of newGrid.
CommitMatch(idx) ==
  /\ At(grid, idx) # Null
  /\ selectedIdx # NoSel /\ selectedIdx # idx
  /\ areMatchable(selectedIdx, idx, grid, GRID_COLUMNS)
  /\ Len(pending) < pendingCap
  /\ undoSnapshot' = snapshotOnMatch(undoUsed, undoSnapshot, grid, score)
  /\ score' = scoreAfterMatch(score)
  /\ selectedIdx' = NoSel
  /\ pending' = Append(pending, matchedGrid(grid, selectedIdx, idx))
  /\ store' = saveEffect(grid, refillsRemaining, score', undoUsed, undoSnapshot')
  /\ expect' = NoExpect
  /\ UNCHANGED <<grid, refillsRemaining, isInitialized, undoUsed, undoCount, resets, refillCount, pendingCap>>

C19_selectionKept(prev, idx) == prev

\* The selection after a click that does not match: setSelectedIdx(idx).
movedSelection(prev, idx) == idx

\* handleCellClick, another cell selected and not matchable: move the selection.
RetargetCell(idx) ==
  /\ At(grid, idx) # Null
  /\ selectedIdx # NoSel /\ selectedIdx # idx
  /\ ~areMatchable(selectedIdx, idx, grid, GRID_COLUMNS)
  /\ selectedIdx' = movedSelection(selectedIdx, idx)
  /\ expect' = Did("retarget")
  /\ UNCHANGED <<grid, refillsRemaining, score, isInitialized, undoUsed,
                 undoSnapshot, pending, store, undoCount, resets, refillCount, pendingCap>>

\* handleCellClick on an empty cell returns at once.
ClickEmpty(idx) ==
  /\ At(grid, idx) = Null
  /\ UNCHANGED sessionVars

handleCellClick(idx) ==
  /\ isInitialized
  /\ idx \in Indices(grid)
  /\ \/ ClickEmpty(idx)
     \/ SelectCell(idx)
     \/ UnselectCell(idx)
     \/ CommitMatch(idx)
     \/ RetargetCell(idx)
  /\ UNCHANGED fnVars

\* The callback of setTimeout(.., 300): setGrid(prev => collapseEmptyRows(newGrid)).
\* Timers of equal delay fire in the order they were set.
collapseCallback ==
  /\ pending # <<>>
  /\ grid' = collapseEmptyRows(Head(pending), GRID_COLUMNS)
  /\ pending' = Tail(pending)
  /\ store' = saveEffect(grid', refillsRemaining, score, undoUsed, undoSnapshot)
  /\ UNCHANGED <<selectedIdx, refillsRemaining, score, isInitialized, undoUsed,
                 undoSnapshot, expect, undoCount, resets, refillCount, pendingCap>>
  /\ UNCHANGED fnVars

C11_canRefillAtZero(r) == r >= 0

\* The negation of handleRefill's guard, if (refillsRemaining <= 0) return.
canRefill(r) == ~(r <= 0)

RefillRejected ==
  /\ ~canRefill(refillsRemaining)
  /\ expect' = Did("refill-rejected")
  /\ UNCHANGED <<grid, selectedIdx, refillsRemaining, score, isInitialized, undoUsed,
                 undoSnapshot, pending, store, undoCount, resets, refillCount, pendingCap>>

C12_refillsAfterRefillTwo(r) == r - 2

\* setRefillsRemaining(prev => prev - 1)
refillsAfterRefill(r) == r - 1

RefillAccepted ==
  /\ canRefill(refillsRemaining)
  /\ grid' \in refillGrid(grid, GRID_COLUMNS, SessionDigits)
  /\ Len(grid') <= MaxRows * GRID_COLUMNS
  /\ refillsRemaining' = refillsAfterRefill(refillsRemaining)
  /\ store' = saveEffect(grid', refillsRemaining', score, undoUsed, undoSnapshot)
  /\ expect' = [op |-> "refill", grid |-> grid', score |-> score]
  /\ refillCount' = refillCount + 1
  /\ UNCHANGED <<selectedIdx, score, isInitialized, undoUsed, undoSnapshot, pending,
                 undoCount, resets, pendingCap>>

handleRefill ==
  /\ isInitialized
  /\ (RefillRejected \/ RefillAccepted)
  /\ UNCHANGED fnVars

UndoRejected ==
  /\ undoUsed \/ undoSnapshot = <<>>
  /\ expect' = Did("undo-rejected")
  /\ UNCHANGED <<grid, selectedIdx, refillsRemaining, score, isInitialized, undoUsed,
                 undoSnapshot, pending, store, undoCount, resets, refillCount, pendingCap>>

\* The flag handleUndo sets: setUndoUsed(true).
C7_usedAfterUndoKept(used) == used

usedAfterUndo(used) == TRUE

C32_gridAfterUndoKept(g, snap) == g

\* setGrid(undoSnapshot.grid)
gridAfterUndo(g, snap) == snap[1].grid

UndoAccepted ==
  /\ ~(undoUsed \/ undoSnapshot = <<>>)
  /\ grid' = gridAfterUndo(grid, undoSnapshot)
  /\ score' = undoSnapshot[1].score
  /\ undoUsed' = usedAfterUndo(undoUsed)
  /\ undoSnapshot' = <<>>
  /\ selectedIdx' = NoSel
  /\ store' = saveEffect(grid', refillsRemaining, score', undoUsed', undoSnapshot')
  /\ expect' = [op |-> "undo", grid |-> undoSnapshot[1].grid,
                 score |-> undoSnapshot[1].score]
  /\ undoCount' = undoCount + 1
  /\ UNCHANGED <<refillsRemaining, isInitialized, pending, resets, refillCount, pendingCap>>

handleUndo ==
  /\ isInitialized
  /\ (UndoRejected \/ UndoAccepted)
  /\ UNCHANGED fnVars

\* handleReset with the confirm accepted, and the NEW GAME button.
startNewGame ==
  /\ isInitialized
  /\ resets < MaxResets
  /\ resets' = resets + 1
  /\ grid' \in FreshGrids
  /\ refillsRemaining' = MAX_REFILLS
  /\ score' = 0
  /\ selectedIdx' = NoSel
  /\ undoUsed' = FALSE
  /\ undoSnapshot' = <<>>
  /\ store' = saveEffect(grid', refillsRemaining', score', undoUsed', undoSnapshot')
  /\ expect' = [op |-> "reset", grid |-> grid', score |-> 0]
  /\ undoCount' = 0
  /\ refillCount' = 0
  /\ UNCHANGED <<isInitialized, pending, pendingCap>>
  /\ UNCHANGED fnVars

\* The click on the page background: setSelectedIdx(null).
clearSelection ==
  /\ isInitialized
  /\ selectedIdx # NoSel
  /\ selectedIdx' = NoSel
  /\ UNCHANGED <<grid, refillsRemaining, score, isInitialized, undoUsed,
                 undoSnapshot, pending, store, expect, undoCount, resets, refillCount, pendingCap>>
  /\ UNCHANGED fnVars

Next ==
  \/ Mount
  \/ \E idx \in Indices(grid) : handleCellClick(idx)
  \/ collapseCallback
  \/ handleRefill
  \/ handleUndo
  \/ startNewGame
  \/ clearSelection

Spec == Init /\ [][Next]_vars

\* The session without reset and with one more callback allowed in flight:
\* two matches committed before the first one's collapse has run.
OverlapInit ==
  /\ sessionIdle
  /\ pendingCap = MaxPending + 1
  /\ store \in InitialStores
  /\ fnIdle

OverlapNext ==
  \/ Mount
  \/ \E idx \in Indices(grid) : handleCellClick(idx)
  \/ collapseCallback
  \/ handleRefill
  \/ handleUndo
  \/ clearSelection

OverlapSpec == OverlapInit /\ [][OverlapNext]_vars

\* The session whose scheduled collapse callbacks do fire (the timers).
FairSpec == Init /\ [][Next]_vars /\ WF_vars(collapseCallback)

\* The start of the page on every kind of stored value: nothing, text that
\* does not parse, an object without a grid field, a record with an empty
\* grid, a record of an earlier format without the undo fields, and records
\* as the save effect writes them.
ResumeGrids == FreshGrids \cup {<<3, Null>>, <<Null, 5>>}
ResumeSnapshots == {<<>>} \cup {<<[grid |-> g, score |-> 0]>> : g \in {<<3, 5>>, <<5, 5, 3, Null>>}}
ResumeStores ==
  {<<>>, <<Unparseable>>, <<[score |-> 0]>>}
  \cup {<<[grid |-> g, refillsRemaining |-> r, score |-> sc]>> :
          g \in ResumeGrids, r \in 0..MAX_REFILLS, sc \in {0, 10}}
  \cup {<<SavedGameState(g, r, sc, u, snap)>> :
          g \in ResumeGrids \cup {<<>>}, r \in 0..MAX_REFILLS, sc \in {0, 10},
          u \in BOOLEAN, snap \in ResumeSnapshots}

ResumeInit ==
  /\ sessionIdle
  /\ pendingCap = MaxPending
  /\ store \in ResumeStores
  /\ fnIdle

ResumeNext == Mount

ResumeSpec == ResumeInit /\ [][ResumeNext]_vars

C33_saveEffectUnguarded(init, st, g, r, s, u, snap) == saveEffect(g, r, s, u, snap)

\* The save effect with its guard, if (isInitialized) { .. }: what the store
\* holds after the effect has run.
saveEffectGuarded(init, st, g, r, s, u, snap) ==
  IF init THEN saveEffect(g, r, s, u, snap) ELSE st

\* The save effect of the first commit: it runs right after the load effect,
\* with the state of the first render (the load effect's setters take effect
\* at the next render).
firstCommitSaveEffect ==
  /\ ~isInitialized
  /\ expect.op = "none"
  /\ store' = saveEffectGuarded(isInitialized, store, grid, refillsRemaining,
                                score, undoUsed, undoSnapshot)
  /\ expect' = Did("first-commit")
  /\ UNCHANGED <<grid, selectedIdx, refillsRemaining, score, isInitialized,
                 undoUsed, undoSnapshot, pending, undoCount, resets, refillCount,
                 pendingCap>>
  /\ UNCHANGED fnVars

\* The start of the page with the effects of the first commit apart.
StartNext == Mount \/ firstCommitSaveEffect

StartSpec == ResumeInit /\ [][StartNext]_vars

(***************************************************************************)
(* The pure functions on every bounded input                               *)
(***************************************************************************)
Grids == UNION {[1..n -> CellValue] : n \in 0..MaxLen}

PureInit ==
  /\ sessionIdle
  /\ pendingCap = MaxPending
  /\ store = <<>>
  /\ fnGrid \in Grids
  /\ fnCols \in 1..MaxCols
  /\ fnIdx1 = -1 /\ fnIdx2 = -1 /\ fnPath = "idle"
  /\ fnPathRev = "idle" /\ fnOp = "idle" /\ fnOut = <<>> /\ fnAgain = <<>>

\* getMatchPath(idx1, idx2, grid, cols) on two indices of the grid, and the
\* same call with the indices swapped.
Resolve ==
  /\ fnPath = "idle"
  /\ \E i \in Indices(fnGrid), j \in Indices(fnGrid) :
       /\ fnIdx1' = i
       /\ fnIdx2' = j
       /\ fnPath' = getMatchPath(i, j, fnGrid, fnCols)
       /\ fnPathRev' = getMatchPath(j, i, fnGrid, fnCols)
  /\ UNCHANGED <<fnGrid, fnCols, fnOp, fnOut, fnAgain>>
  /\ UNCHANGED sessionVars

PureNext == Resolve

PureSpec == PureInit /\ [][PureNext]_vars

(***************************************************************************)
(* The grid transforms on every bounded input                              *)
(***************************************************************************)
TransformInit ==
  /\ sessionIdle
  /\ pendingCap = MaxPending
  /\ store = <<>>
  /\ fnGrid \in Grids
  /\ fnCols \in 1..MaxCols
  /\ fnIdx1 = -1 /\ fnIdx2 = -1 /\ fnPath = "idle" /\ fnPathRev = "idle"
  /\ fnOp = "idle" /\ fnOut = <<>> /\ fnAgain = <<>>

\* refillGrid(grid, cols)
ApplyRefill ==
  /\ fnOp = "idle"
  /\ fnOp' = "refillGrid"
  /\ fnOut' \in refillGrid(fnGrid, fnCols, Digits)
  /\ UNCHANGED <<fnGrid, fnCols, fnIdx1, fnIdx2, fnPath, fnPathRev, fnAgain>>
  /\ UNCHANGED sessionVars

\* collapseEmptyRows(grid, cols)
ApplyCollapse ==
  /\ fnOp = "idle"
  /\ fnOp' = "collapseEmptyRows"
  /\ fnOut' = collapseEmptyRows(fnGrid, fnCols)
  /\ UNCHANGED <<fnGrid, fnCols, fnIdx1, fnIdx2, fnPath, fnPathRev, fnAgain>>
  /\ UNCHANGED sessionVars

\* collapseEmptyRows applied to its own result.
ApplyCollapseAgain ==
  /\ fnOp = "collapseEmptyRows"
  /\ fnOp' = "collapseEmptyRows twice"
  /\ fnAgain' = collapseEmptyRows(fnOut, fnCols)
  /\ UNCHANGED <<fnGrid, fnCols, fnIdx1, fnIdx2, fnPath, fnPathRev, fnOut>>
  /\ UNCHANGED sessionVars

TransformNext == ApplyRefill \/ ApplyCollapse \/ ApplyCollapseAgain

TransformSpec == TransformInit /\ [][TransformNext]_vars

(***************************************************************************)
(* Claims on the match path resolver (PureSpec)                            *)
(***************************************************************************)
resolved == fnPath # "idle"
fnV1 == At(fnGrid, fnIdx1)
fnV2 == At(fnGrid, fnIdx2)
rowOf(i) == i \div fnCols
colOf(i) == i % fnCols
\* The value rule: both cells filled, values equal or summing to ten.
valueRule == fnV1 # Null /\ fnV2 # Null /\ (fnV1 = fnV2 \/ fnV1 + fnV2 = 10)
lowIdx == Min(fnIdx1, fnIdx2)
highIdx == Max(fnIdx1, fnIdx2)
between(a, b, c) == (a < b /\ b < c) \/ (c < b /\ b < a)

\* The four geometries, stated on the cells of the grid.
seqOpen ==
  \A k \in Indices(fnGrid) : (lowIdx < k /\ k < highIdx) => fnGrid[k + 1] = Null
horOpen ==
  /\ rowOf(fnIdx1) = rowOf(fnIdx2)
  /\ \A k \in Indices(fnGrid) :
       (rowOf(k) = rowOf(fnIdx1) /\ between(colOf(fnIdx1), colOf(k), colOf(fnIdx2)))
         => fnGrid[k + 1] = Null
verOpen ==
  /\ colOf(fnIdx1) = colOf(fnIdx2)
  /\ \A k \in Indices(fnGrid) :
       (colOf(k) = colOf(fnIdx1) /\ between(rowOf(fnIdx1), rowOf(k), rowOf(fnIdx2)))
         => fnGrid[k + 1] = Null
diaOpen ==
  /\ Abs(rowOf(fnIdx1) - rowOf(fnIdx2)) = Abs(colOf(fnIdx1) - colOf(fnIdx2))
  /\ \A k \in Indices(fnGrid) :
       ( /\ between(rowOf(fnIdx1), rowOf(k), rowOf(fnIdx2))
         /\ between(colOf(fnIdx1), colOf(k), colOf(fnIdx2))
         /\ Abs(rowOf(k) - rowOf(fnIdx1)) = Abs(colOf(k) - colOf(fnIdx1)) )
         => fnGrid[k + 1] = Null

\* C1: for two distinct in-range indices whose values pass the value rule,
\* getMatchPath is non-null iff one of the four geometries is unobstructed,
\* the kind is the first unobstructed one in the order sequential (plain or
\* wrap), horizontal, vertical, diagonal, and areMatchable is true exactly
\* when getMatchPath is non-null.  (Equal indices are C2's.)
C1_FirstUnobstructed ==
  (resolved /\ fnIdx1 # fnIdx2 /\ valueRule) =>
    /\ (fnPath # "null") <=> (seqOpen \/ horOpen \/ verOpen \/ diaOpen)
    /\ seqOpen => fnPath \in {"sequential", "sequential-wrap"}
    /\ (~seqOpen /\ horOpen) => fnPath = "horizontal"
    /\ (~seqOpen /\ ~horOpen /\ verOpen) => fnPath = "vertical"
    /\ (~seqOpen /\ ~horOpen /\ ~verOpen /\ diaOpen) => fnPath = "diagonal"
    /\ areMatchable(fnIdx1, fnIdx2, fnGrid, fnCols) <=> (fnPath # "null")

\* A diagonal two rows long, blocked in reading order and open on the diagonal.
C1_Witness ==
  /\ resolved /\ valueRule
  /\ fnPath = "diagonal"
  /\ Abs(rowOf(fnIdx1) - rowOf(fnIdx2)) = 2

\* C2: getMatchPath is null whenever the indices are equal, or a cell is
\* empty, or the values are neither equal nor sum to ten, wherever the cells
\* are and whatever lies between them.
C2_GuardsGiveNull ==
  (resolved /\ ( \/ fnIdx1 = fnIdx2
                 \/ fnV1 = Null
                 \/ fnV2 = Null
                 \/ ~(fnV1 = fnV2 \/ fnV1 + fnV2 = 10) ))
    => fnPath = "null"

\* Two filled neighbours whose values do not match.
C2_Witness ==
  /\ resolved
  /\ fnIdx2 = fnIdx1 + 1
  /\ fnV1 # Null /\ fnV2 # Null
  /\ fnV1 # fnV2 /\ fnV1 + fnV2 # 10
  /\ fnPath = "null"

(***************************************************************************)
(* Claims on the session (Spec)                                            *)
(***************************************************************************)
\* A step that commits a match: the only one that schedules a collapse.
commits == Len(pending') = Len(pending) + 1
\* The player's actions.
cellClick == \E idx \in Indices(grid) : handleCellClick(idx)
playerAction == cellClick \/ handleRefill \/ handleUndo \/ startNewGame

\* C3: when a click commits a match on the selected cell a and the clicked
\* cell b, the grid handed to the collapse is the grid of the click with
\* exactly a and b, both filled before, now empty, and no other cell changed.
C3_CommitFrame ==
  [][commits =>
       LET newGrid == pending'[Len(pending')]
           a == selectedIdx
       IN  /\ Len(newGrid) = Len(grid)
           /\ a \in Indices(grid)
           /\ \E b \in Indices(grid) \ {a} :
                /\ grid[a + 1] # Null
                /\ grid[b + 1] # Null
                /\ \A k \in Indices(grid) :
                     newGrid[k + 1] = IF k \in {a, b} THEN Null ELSE grid[k + 1]
    ]_vars

\* A match was committed and its collapse is still to run.
C3_Witness ==
  /\ pending # <<>>
  /\ score >= 10
  /\ Len(NonNull(pending[1])) = Len(NonNull(grid)) - 2

\* C4: between the click that commits a match and the application of its
\* collapse to the grid, no other player action is processed.
C4_RunToCompletion == [][pending # <<>> => ~playerAction]_vars

\* C5: once no collapse callback is pending, the session an undo left has
\* the grid and score of just before the match, undoUsed set, no snapshot and
\* no selection, however the undo and the callback interleave.
C5_UndoRestores ==
  (expect.op = "undo" /\ pending = <<>>) =>
    /\ grid = expect.grid
    /\ score = expect.score
    /\ undoUsed
    /\ undoSnapshot = <<>>
    /\ selectedIdx = NoSel

C7_OneUndo ==
  /\ undoCount <= 1
  /\ undoCount = 1 => (undoUsed /\ undoSnapshot = <<>>)

\* After the undo, a later match is committed and leaves no snapshot.
C7_Witness ==
  /\ undoCount = 1
  /\ expect.op = "none"
  /\ pending # <<>>
  /\ score >= 10
  /\ undoSnapshot = <<>>

\* C8: once Won, the session stays Won under every select, refill and undo.
C8_WonTerminal ==
  [][(isWin /\ (cellClick \/ handleRefill \/ handleUndo)) => isWin']_vars

\* C9: once initialized, win is reported iff the grid has length zero; a
\* grid of non-zero length is never reported as a win, all empty or not.
C9_WinIffEmpty ==
  isInitialized =>
    /\ isWin <=> Len(grid) = 0
    /\ Len(grid) # 0 => ~isWin

\* The board was cleared: a score was made and the grid has length zero.
C9_Witness == isWin /\ score >= 10

\* C10: after a reset, once no collapse callback is pending, the grid is
\* the one the reset created, with the full refill quota, score 0, undoUsed
\* false, no snapshot and no selection.
C10_ResetFresh ==
  (expect.op = "reset" /\ pending = <<>>) =>
    /\ grid = expect.grid
    /\ refillsRemaining = MAX_REFILLS
    /\ score = 0
    /\ ~undoUsed
    /\ undoSnapshot = <<>>
    /\ selectedIdx = NoSel

\* C11: a rejected resource action changes nothing of the session but the
\* message: refill invoked with no refill left, and undo invoked when it was
\* used or no snapshot is held, leave grid, score, refillsRemaining,
\* selection, undoUsed and the snapshot as they were.
C11_RejectedFrame ==
  [][ ( \/ handleRefill /\ refillsRemaining = 0
        \/ handleUndo /\ (undoUsed \/ undoSnapshot = <<>>) )
      => UNCHANGED <<grid, score, refillsRemaining, selectedIdx, undoUsed,
                     undoSnapshot>>
    ]_vars

\* A refill was just rejected, in a session whose undo is spent as well.
C11_Witness ==
  /\ expect.op = "refill-rejected"
  /\ refillsRemaining = 0
  /\ undoUsed
  /\ grid # <<>>

\* C12: refillsRemaining stays within 0..MAX_REFILLS; an accepted refill
\* takes exactly one off it; only a reset raises it; and no more than
\* MAX_REFILLS refills are accepted between two resets.
C12_RefillQuota ==
  /\ [](/\ 0 <= refillsRemaining
        /\ refillsRemaining <= MAX_REFILLS
        /\ refillCount <= MAX_REFILLS)
  /\ [][ /\ (handleRefill /\ refillsRemaining > 0)
              => refillsRemaining' = refillsRemaining - 1
         /\ refillsRemaining' > refillsRemaining => startNewGame
       ]_vars

\* The whole quota was spent.
C12_Witness ==
  /\ MAX_REFILLS > 0
  /\ refillCount = MAX_REFILLS
  /\ refillsRemaining = 0

\* C19: a click that commits no match changes the selection only.  On an
\* empty cell nothing changes; with no selection the cell is selected; on
\* the selected cell the selection is cleared; on another filled cell the
\* selection moves to it.  Grid, score, refillsRemaining, undoUsed and the
\* snapshot are untouched.
C19_SelectFrame ==
  [][ \A idx \in Indices(grid) :
        (handleCellClick(idx) /\ ~commits) =>
          /\ UNCHANGED <<grid, score, refillsRemaining, undoUsed, undoSnapshot>>
          /\ selectedIdx' = CASE grid[idx + 1] = Null -> selectedIdx
                              [] selectedIdx = NoSel -> idx
                              [] selectedIdx = idx -> NoSel
                              [] OTHER -> idx
    ]_vars

\* The selection was just moved from one filled cell to another.
C19_Witness ==
  /\ expect.op = "retarget"
  /\ selectedIdx \in Indices(grid)
  /\ grid[selectedIdx + 1] # Null

\* C20: the score is a non-negative multiple of ten; a committed match adds
\* exactly ten; it changes otherwise only when an undo sets it to the
\* snapshot's score or a reset sets it to zero.
C20_ScoreTens ==
  /\ [](score >= 0 /\ score % 10 = 0)
  /\ [][ /\ commits => score' = score + 10
         /\ score' # score =>
              \/ commits
              \/ handleUndo /\ undoSnapshot # <<>> /\ score' = undoSnapshot[1].score
              \/ startNewGame /\ score' = 0
       ]_vars

\* Two matches were committed in one game.
C20_Witness == score >= 20

(***************************************************************************)
(* Claims on the grid transforms (TransformSpec)                           *)
(***************************************************************************)
isFilled(v) == v # Null
hasFilled == \E k \in Indices(fnGrid) : fnGrid[k + 1] # Null
\* The input's non-empty values, in order.
fnFilled == SelectSeq(fnGrid, isFilled)
\* The highest index of the input that holds a non-empty cell.
fnLast ==
  CHOOSE k \in Indices(fnGrid) :
    /\ fnGrid[k + 1] # Null
    /\ \A j \in Indices(fnGrid) : j > k => fnGrid[j + 1] = Null
\* n rounded up to a multiple of the column count.
nextMultiple(n) == ((n + fnCols - 1) \div fnCols) * fnCols

\* C13: on a grid with a non-empty cell, refillGrid returns the input's
\* cells 0..lastIndex unchanged, then the input's non-empty values in their
\* order, then empty cells up to the next multiple of cols and no further.
C13_RefillShape ==
  (fnOp = "refillGrid" /\ hasFilled) =>
    LET body == fnLast + 1 + Len(fnFilled)
    IN  /\ Len(fnOut) = nextMultiple(body)
        /\ \A k \in 0..fnLast : fnOut[k + 1] = fnGrid[k + 1]
        /\ \A k \in 1..Len(fnFilled) : fnOut[fnLast + 1 + k] = fnFilled[k]
        /\ \A k \in (body + 1)..Len(fnOut) : fnOut[k] = Null

\* A grid with a gap and trailing empty cells, whose refill needs padding.
C13_Witness ==
  /\ fnOp = "refillGrid" /\ hasFilled
  /\ fnLast + 1 < Len(fnGrid)
  /\ \E k \in 0..fnLast : fnGrid[k + 1] = Null
  /\ fnLast + 1 + Len(fnFilled) < Len(fnOut)

\* C14: for every grid, refillGrid's result holds at least as many
\* non-empty cells as the input, and its non-empty values begin with the
\* input's non-empty values in their order.
C14_RefillKeeps ==
  fnOp = "refillGrid" =>
    LET out == SelectSeq(fnOut, isFilled)
    IN  /\ Len(out) >= Len(fnFilled)
        /\ SubSeq(out, 1, Len(fnFilled)) = fnFilled

\* Two different values were carried over and appended again.
C14_Witness ==
  /\ fnOp = "refillGrid"
  /\ Len(fnFilled) >= 2
  /\ fnFilled[1] # fnFilled[2]
  /\ Len(SelectSeq(fnOut, isFilled)) = 2 * Len(fnFilled)

\* The cells of the input whose row holds a non-empty cell.
keptCells ==
  {k \in Indices(fnGrid) :
     \E j \in Indices(fnGrid) :
       j \div fnCols = k \div fnCols /\ fnGrid[j + 1] # Null}

\* C15: collapseEmptyRows returns, in their order, exactly the rows of the
\* input that hold a non-empty cell; so the non-empty values are unchanged
\* and the result is empty iff the input has no non-empty cell.
C15_CollapseKeepsRows ==
  fnOp = "collapseEmptyRows" =>
    /\ Len(fnOut) = Cardinality(keptCells)
    /\ \A k \in keptCells :
         fnOut[Cardinality({j \in keptCells : j < k}) + 1] = fnGrid[k + 1]
    /\ SelectSeq(fnOut, isFilled) = fnFilled
    /\ (Len(fnOut) = 0) <=> ~hasFilled

\* A row was dropped and a kept row still holds an empty cell.
C15_Witness ==
  /\ fnOp = "collapseEmptyRows"
  /\ 0 < Len(fnOut) /\ Len(fnOut) < Len(fnGrid)
  /\ \E k \in 1..Len(fnOut) : fnOut[k] = Null

\* C16: collapseEmptyRows applied to its own result returns that result.
C16_CollapseIdempotent ==
  fnOp = "collapseEmptyRows twice" => fnAgain = fnOut

\* The first collapse dropped a row and kept another.
C16_Witness ==
  /\ fnOp = "collapseEmptyRows twice"
  /\ fnOut # fnGrid
  /\ fnOut # <<>>

(***************************************************************************)
(* Further claims on the match path resolver (PureSpec)                    *)
(***************************************************************************)
\* C17: for in-range a and b, getMatchPath(a, b) and getMatchPath(b, a)
\* return the same result: both null, or the same path kind.
C17_Symmetric == resolved => fnPathRev = fnPath

\* A wrap found with the higher index given first.
C17_Witness ==
  /\ resolved
  /\ fnIdx1 > fnIdx2
  /\ fnPath = "sequential-wrap"
  /\ fnPathRev = "sequential-wrap"

\* C18: when the sequential path between two value-matching cells is open,
\* the result is 'sequential-wrap' iff the cells are in different rows and
\* the column of the higher index is less than that of the lower index, and
\* 'sequential' otherwise.
C18_WrapRule ==
  (resolved /\ fnIdx1 # fnIdx2 /\ valueRule /\ seqOpen) =>
    IF rowOf(lowIdx) # rowOf(highIdx) /\ colOf(highIdx) < colOf(lowIdx)
    THEN fnPath = "sequential-wrap"
    ELSE fnPath = "sequential"

\* An open sequential path that changes row without wrapping.
C18_Witness ==
  /\ resolved /\ valueRule
  /\ fnPath = "sequential"
  /\ rowOf(lowIdx) # rowOf(highIdx)
  /\ colOf(highIdx) >= colOf(lowIdx)

(***************************************************************************)
(* Claims on persistence (Spec, ResumeSpec)                                *)
(***************************************************************************)
\* C21: once initialized, the store holds exactly the current grid,
\* refillsRemaining, score, undoUsed and undoSnapshot while the grid has a
\* length above zero, and no record when the grid has length zero.
C21_WriteThrough ==
  isInitialized =>
    store = IF Len(grid) > 0
            THEN <<[grid |-> grid, refillsRemaining |-> refillsRemaining,
                    score |-> score, undoUsed |-> undoUsed,
                    undoSnapshot |-> undoSnapshot]>>
            ELSE <<>>

\* The record written after a match, holding its score and its snapshot.
C21_Witness ==
  /\ isInitialized
  /\ store # <<>>
  /\ store[1].score >= 10
  /\ store[1].undoSnapshot # <<>>
  /\ pending # <<>>

\* A stored value the load reads as a record or as nothing: absent, text
\* that does not parse, or an object with a grid field.  (Other shapes: C23.)
readable ==
  \/ store = <<>>
  \/ "unparseable" \in DOMAIN store[1]
  \/ "grid" \in DOMAIN store[1]
resumable ==
  /\ store # <<>>
  /\ "grid" \in DOMAIN store[1]
  /\ Len(store[1].grid) > 0

\* C22: on start, a stored record with a non-empty grid is resumed with its
\* grid, refillsRemaining, score, undoUsed and undoSnapshot; otherwise a new
\* session starts with a fresh grid, MAX_REFILLS refills, score 0, undoUsed
\* false and no snapshot.
C22_ResumeOrFresh ==
  [][ (~isInitialized /\ readable) =>
        /\ isInitialized'
        /\ IF resumable
           THEN /\ grid' = store[1].grid
                /\ refillsRemaining' = store[1].refillsRemaining
                /\ score' = store[1].score
                /\ "undoUsed" \in DOMAIN store[1] => undoUsed' = store[1].undoUsed
                /\ "undoSnapshot" \in DOMAIN store[1]
                     => undoSnapshot' = store[1].undoSnapshot
           ELSE /\ grid' \in FreshGrids
                /\ refillsRemaining' = MAX_REFILLS
                /\ score' = 0
                /\ ~undoUsed'
                /\ undoSnapshot' = <<>>
    ]_vars

\* A session resumed with a score, a spent refill and a snapshot.
C22_Witness ==
  /\ isInitialized
  /\ score = 10
  /\ refillsRemaining = 0
  /\ ~undoUsed
  /\ undoSnapshot # <<>>
  /\ grid \notin FreshGrids

\* C23: whatever the store holds (nothing, text that does not parse, a
\* parsed value without a grid field), the start-up load completes, treats
\* the value as absent and starts a new session with a fresh grid.
C23_LoadNeverFails ==
  [][ (~isInitialized /\ ~resumable) =>
        /\ expect'.op # "load-threw"
        /\ isInitialized'
        /\ grid' \in FreshGrids
        /\ refillsRemaining' = MAX_REFILLS
        /\ score' = 0
    ]_vars

(***************************************************************************)
(* Further claims on the session                                           *)
(***************************************************************************)
\* C24: the length of the session grid is a multiple of GRID_COLUMNS.
C24_LengthAligned == Len(grid) % GRID_COLUMNS = 0

\* A refill that had to pad its result to a whole row.
C24_Witness ==
  /\ refillCount >= 1
  /\ expect.op = "refill"
  /\ Len(grid) > 0
  /\ grid[Len(grid)] = Null

\* A match was committed that leaves no non-empty cell: the grid handed to
\* its collapse callback is all empty.
lastPairMatched ==
  /\ pending # <<>>
  /\ \A k \in 1..Len(pending[Len(pending)]) : pending[Len(pending)][k] = Null

\* C25 (FairSpec): after a match that removes the last two non-empty cells,
\* once the scheduled collapse callback fires the grid has length zero, win
\* is reported and the stored record is erased.  (It holds with or without
\* player actions in between: the callback installs its own grid.)
C25_EventuallyWon ==
  lastPairMatched ~> (Len(grid) = 0 /\ isWin /\ store = <<>>)

\* The board was cleared by the callback and the record erased.
C25_Witness ==
  /\ isWin
  /\ store = <<>>
  /\ pending = <<>>
  /\ refillCount >= 1
  /\ score >= 20

\* C26: a selected index is an index of the current grid and its cell is
\* non-empty, also after a collapse callback that fires after the select.
C26_SelectionValid ==
  selectedIdx # NoSel =>
    (selectedIdx \in Indices(grid) /\ grid[selectedIdx + 1] # Null)

\* C27 (OverlapSpec): with two matches committed before the first collapse
\* callback has fired, in a game without undo, refill or reset, the grid the
\* second callback installs (the state after both have fired) has every
\* cell empty that the first match emptied.
C27_CreditedStayApplied ==
  (Len(pending) = 2 /\ undoCount = 0 /\ refillCount = 0) =>
    \A k \in 1..Len(pending[1]) :
      pending[1][k] = Null => pending[2][k] = Null

\* C28: once no collapse callback is pending and nothing was done since an
\* accepted refill, the grid still holds what the refill produced, less at
\* most the two cells of each match that was pending at the refill.
C28_RefillKept ==
  (expect.op = "refill" /\ pending = <<>>) =>
    Len(NonNull(grid)) >= Len(NonNull(expect.grid)) - 2 * pendingCap

\* C29: no row of the session grid is all empty; hence the grid has length
\* zero exactly when it holds no non-empty cell.
C29_NoEmptyRow ==
  /\ \A k \in Indices(grid) :
       \E j \in Indices(grid) :
         j \div GRID_COLUMNS = k \div GRID_COLUMNS /\ grid[j + 1] # Null
  /\ (Len(grid) = 0) <=> (\A k \in Indices(grid) : grid[k + 1] = Null)

\* A match emptied a row and the collapse removed it.
C29_Witness ==
  /\ isInitialized
  /\ score >= 10
  /\ pending = <<>>
  /\ undoCount = 0 /\ refillCount = 0
  /\ 0 < Len(grid) /\ Len(grid) < INITIAL_FILL_COUNT

\* C30 (PureSpec): getMatchPath never returns 'horizontal': two
\* value-matching cells of one row with only empty cells between them are
\* already open in reading order, and the result is 'sequential'.
C30_NeverHorizontal ==
  resolved =>
    /\ fnPath # "horizontal"
    /\ (fnIdx1 # fnIdx2 /\ valueRule /\ horOpen) => fnPath = "sequential"

\* Two matching cells of one row with an empty cell between them.
C30_Witness ==
  /\ resolved /\ valueRule
  /\ horOpen
  /\ highIdx - lowIdx >= 2
  /\ fnPath = "sequential"

\* C31: while no refill was accepted since the grid was freshly created,
\* the session grid holds an odd number of non-empty cells, so it is not
\* empty and win is not reported.
C31_OddWithoutRefill ==
  (isInitialized /\ refillCount = 0) =>
    /\ Len(NonNull(grid)) % 2 = 1
    /\ ~isWin

\* C32: an accepted undo installs the grid of the snapshot and leaves
\* refillsRemaining as it is; after a refill accepted since the match, the
\* grid is the pre-match grid again and the refill stays spent.
C32_UndoKeepsRefills ==
  [][ (handleUndo /\ ~undoUsed /\ undoSnapshot # <<>>) =>
        /\ grid' = undoSnapshot[1].grid
        /\ refillsRemaining' = refillsRemaining
    ]_vars

\* First match on the fresh grid, then a refill, then the undo: the fresh
\* grid is back and the refill is spent.
C32_Witness ==
  /\ expect.op = "undo"
  /\ refillCount >= 1
  /\ refillsRemaining = MAX_REFILLS - refillCount
  /\ grid = expect.grid
  /\ grid \in FreshGrids

\* C33 (StartSpec): while the session is not initialized, the store is
\* neither written nor cleared and no win is reported, although the grid is
\* the empty array.
C33_StoreUntouchedBeforeLoad ==
  /\ [](~isInitialized => (Len(grid) = 0 /\ ~isWin))
  /\ [][~isInitialized' => store' = store]_vars

\* The save effect of the first commit has run and the record is still there.
C33_Witness ==
  /\ expect.op = "first-commit"
  /\ ~isInitialized
  /\ store # <<>>
  /\ "grid" \in DOMAIN store[1]
  /\ Len(store[1].grid) > 0

====
